---------------------------- MODULE Spec2Model ----------------------------
(***************************************************************************)
(* Conversation store and streaming send logic of streamlit_app.py.        *)
(*                                                                         *)
(* Strings are sequences of one-character strings, so that strip, split,   *)
(* slicing and concatenation are computed rather than assumed.  A Python   *)
(* value that may be None is a set with at most one element.               *)
(***************************************************************************)
EXTENDS Integers, Sequences, FiniteSets, TLC

VARIABLES
    clock,            \* wall clock at the last datetime.now() call, in ticks
    conversations,    \* st.session_state.conversations: chat_id -> messages
    order,            \* insertion order of the keys of the conversations dict
    current_chat_id,  \* st.session_state.current_chat_id
    uploader_counter, \* st.session_state.uploader_counter
    pc,               \* position of the script run in the send logic
    user_content,     \* local user_content of the running send logic
    completion,       \* chunks the open completion stream has still to yield
    chunks,           \* deltas the open completion stream has yielded so far
    full_response,    \* local full_response of the running send logic
    placeholder,      \* what the assistant placeholder currently displays
    pv_pc,            \* get_preview called on its own: "ready" or "done"
    pv_messages,      \* get_preview called on its own: argument chat_messages
    pv_max_len,       \* get_preview called on its own: argument max_len
    pv_result         \* get_preview called on its own: returned preview

vars == <<clock, conversations, order, current_chat_id, uploader_counter,
          pc, user_content, completion, chunks, full_response, placeholder,
          pv_pc, pv_messages, pv_max_len, pv_result>>

appVars == <<clock, conversations, order, current_chat_id, uploader_counter,
             pc, user_content, completion, chunks, full_response, placeholder>>

pvVars == <<pv_pc, pv_messages, pv_max_len, pv_result>>

----------------------------------------------------------------------------
(* Bounds of the model *)

MaxTime == 3          \* last reading of the wall clock

MaxOps == 3           \* script runs that bump uploader_counter

MaxTurns == 2         \* turns the conversations may hold in total

MaxTextLen == 4       \* longest text passed to get_preview on its own

MaxPreviewLen == 2    \* largest max_len passed to get_preview on its own

TicksPerSecond == 2   \* clock ticks per second of the "%S" field

DefaultMaxLen == 35   \* default of get_preview's max_len

----------------------------------------------------------------------------
(* Text helpers *)

Whitespace == {" ", "\n"}

RECURSIVE Replicate(_, _)
Replicate(c, n) == IF n = 0 THEN <<>> ELSE <<c>> \o Replicate(c, n - 1)

RECURSIVE LStrip(_)
LStrip(s) ==
    IF s # <<>> /\ Head(s) \in Whitespace THEN LStrip(Tail(s)) ELSE s

RECURSIVE RStrip(_)
RStrip(s) ==
    IF s # <<>> /\ s[Len(s)] \in Whitespace
    THEN RStrip(SubSeq(s, 1, Len(s) - 1))
    ELSE s

\* str.strip()
Strip(s) == RStrip(LStrip(s))

\* str.split(): the maximal runs of non-whitespace characters, in order
RECURSIVE SplitFrom(_, _)
SplitFrom(s, word) ==
    IF s = <<>>
    THEN IF word = <<>> THEN <<>> ELSE <<word>>
    ELSE IF Head(s) \in Whitespace
         THEN IF word = <<>>
              THEN SplitFrom(Tail(s), <<>>)
              ELSE <<word>> \o SplitFrom(Tail(s), <<>>)
         ELSE SplitFrom(Tail(s), Append(word, Head(s)))

Split(s) == SplitFrom(s, <<>>)

\* " ".join(words)
RECURSIVE Join(_)
Join(words) ==
    IF words = <<>> THEN <<>>
    ELSE IF Len(words) = 1 THEN words[1]
    ELSE words[1] \o <<" ">> \o Join(Tail(words))

\* s[:n]
Slice(s, n) == SubSeq(s, 1, IF Len(s) < n THEN Len(s) ELSE n)

Ellipsis == <<".", ".", ".">>

NewConversationLabel ==
    <<"N", "e", "w", " ", "c", "o", "n", "v", "e", "r", "s", "a", "t", "i", "o", "n">>

SorryPrefix ==
    <<"S", "o", "r", "r", "y", ",", " ", "I", " ", "e", "n", "c", "o", "u", "n",
      "t", "e", "r", "e", "d", " ", "a", "n", " ", "e", "r", "r", "o", "r", ":", " ">>

ErrorPrefix == <<"E", "r", "r", "o", "r", ":", " ">>

DataUriPrefix ==
    <<"d", "a", "t", "a", ":", "i", "m", "a", "g", "e", "/", "p", "n", "g", ";",
      "b", "a", "s", "e", "6", "4", ",">>

\* the block cursor appended to the streamed text on display (line 607)
Cursor == <<"|">>

----------------------------------------------------------------------------
(* Messages *)

TextPart(t) == [type |-> "text", text |-> t]

ImagePart(u) == [type |-> "image_url", image_url |-> [url |-> u]]

Message(r, c) == [role |-> r, content |-> c]

\* image_to_base64: the upload is re-encoded as PNG, whatever its format
image_to_base64(uploaded_file) == <<"b64png", uploaded_file.pixels>>

----------------------------------------------------------------------------
(* get_preview *)

\* inner loop: the text of the first part of type "text", "" if none
RECURSIVE FirstText(_)
FirstText(content) ==
    IF content = <<>> THEN <<>>
    ELSE IF Head(content).type = "text" THEN Head(content).text
    ELSE FirstText(Tail(content))

\* variant: the loop runs over chat_messages instead of reversed(chat_messages)
RECURSIVE LastUserText_oldest(_)
LastUserText_oldest(chat_messages) ==
    IF chat_messages = <<>> THEN <<>>
    ELSE LET m == Head(chat_messages)
             t == IF m.role = "user" THEN FirstText(m.content) ELSE <<>>
         IN  IF t # <<>> THEN t
             ELSE LastUserText_oldest(Tail(chat_messages))

\* outer loop over reversed(chat_messages), leaving at the first non-empty text
RECURSIVE LastUserText(_)
LastUserText(chat_messages) ==
    IF chat_messages = <<>> THEN <<>>
    ELSE LET m == chat_messages[Len(chat_messages)]
             t == IF m.role = "user" THEN FirstText(m.content) ELSE <<>>
         IN  IF t # <<>> THEN t
             ELSE LastUserText(SubSeq(chat_messages, 1, Len(chat_messages) - 1))

\* variant: the slice is one character short
get_preview_short_slice(chat_messages, max_len) ==
    LET last_user_text == LastUserText(chat_messages)
        normalized == Join(Split(last_user_text))
    IN  IF last_user_text = <<>> THEN NewConversationLabel
        ELSE IF Len(normalized) > max_len
             THEN Slice(normalized, max_len - 1) \o Ellipsis
             ELSE normalized

get_preview(chat_messages, max_len) ==
    LET last_user_text == LastUserText(chat_messages)
        normalized == Join(Split(last_user_text))
    IN  IF last_user_text = <<>> THEN NewConversationLabel
        ELSE IF Len(normalized) > max_len
             THEN Slice(normalized, max_len) \o Ellipsis
             ELSE normalized

----------------------------------------------------------------------------
(* Session state and sidebar *)

\* datetime.now().strftime("%Y%m%d_%H%M%S"): the fraction of a second is dropped
Strftime(t) == t \div TicksPerSecond

RECURSIVE Reversed(_)
Reversed(s) == IF s = <<>> THEN <<>> ELSE Reversed(Tail(s)) \o <<Head(s)>>

\* the sidebar loop (lines 478-485): one button per conversation, newest key first
RenderSidebar(convs, ord, cur) ==
    LET keys == Reversed(ord)
    IN  [i \in 1..Len(keys) |->
            [chat_id   |-> keys[i],
             preview   |-> get_preview(convs[keys[i]], DefaultMaxLen),
             is_active |-> keys[i] = cur]]

\* conversations[chat_id] = []: a new key goes last, an existing key keeps its place
DictSetEmpty(convs, chat_id) ==
    [k \in (DOMAIN convs) \cup {chat_id} |-> IF k = chat_id THEN <<>> ELSE convs[k]]

DictOrderAfterSet(convs, ord, chat_id) ==
    IF chat_id \in DOMAIN convs THEN ord ELSE Append(ord, chat_id)

\* the conversation buttons a script run draws; every handler ends in
\* st.rerun(), so between runs they are drawn from the current session state
sidebar == RenderSidebar(conversations, order, current_chat_id)

EmptyPlaceholder == [kind |-> "empty", text |-> <<>>]

PvIdle ==
    /\ pv_pc = "off"
    /\ pv_messages = <<>>
    /\ pv_max_len = DefaultMaxLen
    /\ pv_result = <<>>

\* first script run of a session: lines 457-464
InitApp ==
    /\ clock = 0
    /\ LET chat_id == Strftime(clock)
       IN  /\ current_chat_id = chat_id
           /\ conversations = DictSetEmpty(<<>>, chat_id)
           /\ order = <<chat_id>>
    /\ uploader_counter = 0
    /\ pc = "idle"
    /\ user_content = <<>>
    /\ completion = <<>>
    /\ chunks = <<>>
    /\ full_response = <<>>
    /\ placeholder = EmptyPlaceholder

Init == InitApp /\ PvIdle

\* variant: the new identifier is made current but no entry is stored for it
new_chat_without_entry(now) ==
    /\ pc = "idle"
    /\ uploader_counter < MaxOps
    /\ now >= clock
    /\ clock' = now
    /\ current_chat_id' = Strftime(now)
    /\ uploader_counter' = uploader_counter + 1
    /\ UNCHANGED <<conversations, order, pc, user_content, completion, chunks,
                   full_response, placeholder>>
    /\ UNCHANGED pvVars

\* "New Chat" button: new_chat() and the rerun it forces; now is the reading
\* of datetime.now(), which is not before the previous reading
new_chat(now) ==
    /\ pc = "idle"
    /\ uploader_counter < MaxOps
    /\ now >= clock
    /\ clock' = now
    /\ LET chat_id == Strftime(now)
       IN  /\ current_chat_id' = chat_id
           /\ conversations' = DictSetEmpty(conversations, chat_id)
           /\ order' = DictOrderAfterSet(conversations, order, chat_id)
    /\ uploader_counter' = uploader_counter + 1
    /\ UNCHANGED <<pc, user_content, completion, chunks, full_response, placeholder>>
    /\ UNCHANGED pvVars

\* a conversation button of the sidebar: lines 486-489 and the rerun
select_chat(chat_id) ==
    /\ pc = "idle"
    /\ uploader_counter < MaxOps
    /\ chat_id \in DOMAIN conversations
    /\ current_chat_id' = chat_id
    /\ uploader_counter' = uploader_counter + 1
    /\ UNCHANGED <<clock, conversations, order, pc, user_content, completion,
                   chunks, full_response, placeholder>>
    /\ UNCHANGED pvVars

----------------------------------------------------------------------------
(* Send logic *)

LongPrompt == Replicate("a", 34) \o <<" ", "\n", "b", "c">>

\* values st.chat_input can hand to the script
Prompts == { <<" ", "a", " ", " ", "b">>, LongPrompt, <<" ", "\n">>, <<>> }

\* values st.file_uploader can hand to the script: None or one file
Uploads == { {}, {[format |-> "jpeg", pixels |-> "px"]} }

\* streams the remote endpoint can answer with, each a sequence of values of
\* chunk.choices[0].delta.content: None, "" or a text fragment
Streams ==
    { <<>>,
      << {<<"H", "e", "l">>}, {<<"l", "o", ",", " ">>}, {<<"w", "o", "r", "l", "d">>} >>,
      << {<<"a">>}, {}, {<<"a">>}, {<<>>} >> }

\* values of str(e) for the exceptions the client raises
Errors == { <<"4", "0", "1">> }

\* Python truthiness of an optional string
Truthy(opt) == opt # {} /\ opt # {<<>>}

Value(opt) == CHOOSE v \in opt : TRUE

\* variant: the image part is put in front of the text part
UserContent_image_first(user_prompt, uploaded_image) ==
    (IF uploaded_image # {}
     THEN <<ImagePart(DataUriPrefix \o image_to_base64(Value(uploaded_image)))>>
     ELSE <<>>) \o
    <<TextPart(Strip(user_prompt))>>

\* lines 569-576
UserContent(user_prompt, uploaded_image) ==
    <<TextPart(Strip(user_prompt))>> \o
    (IF uploaded_image # {}
     THEN <<ImagePart(DataUriPrefix \o image_to_base64(Value(uploaded_image)))>>
     ELSE <<>>)

\* messages.append(m), messages being conversations[current_chat_id]
AppendMessage(convs, chat_id, m) ==
    [convs EXCEPT ![chat_id] = Append(@, m)]

RECURSIVE TotalMessages(_, _)
TotalMessages(convs, ord) ==
    IF ord = <<>> THEN 0 ELSE Len(convs[Head(ord)]) + TotalMessages(convs, Tail(ord))

\* variant: the guard tests user_prompt only, not user_prompt.strip()
Submit_unstripped_guard(user_prompt, uploaded_image) ==
    /\ pc = "idle"
    /\ uploader_counter < MaxOps
    /\ TotalMessages(conversations, order) < 2 * MaxTurns
    /\ user_prompt # <<>>
    /\ user_content' = UserContent(user_prompt, uploaded_image)
    /\ conversations' =
           AppendMessage(conversations, current_chat_id, Message("user", user_content'))
    /\ placeholder' = EmptyPlaceholder
    /\ full_response' = <<>>
    /\ pc' = "submitted"
    /\ UNCHANGED <<clock, order, current_chat_id, uploader_counter, completion, chunks>>
    /\ UNCHANGED pvVars

\* lines 568-589: the prompt passes the guard and the user message is recorded
Submit(user_prompt, uploaded_image) ==
    /\ pc = "idle"
    /\ uploader_counter < MaxOps
    /\ TotalMessages(conversations, order) < 2 * MaxTurns
    /\ user_prompt # <<>> /\ Strip(user_prompt) # <<>>
    /\ user_content' = UserContent(user_prompt, uploaded_image)
    /\ conversations' =
           AppendMessage(conversations, current_chat_id, Message("user", user_content'))
    /\ placeholder' = EmptyPlaceholder
    /\ full_response' = <<>>
    /\ pc' = "submitted"
    /\ UNCHANGED <<clock, order, current_chat_id, uploader_counter, completion, chunks>>
    /\ UNCHANGED pvVars

\* lines 590-601: the try block is entered and the remote call is issued; the
\* stream it opens is one the endpoint can answer with
CreateCompletion(stream) ==
    /\ pc = "submitted"
    /\ completion' = stream
    /\ pc' = "streaming"
    /\ UNCHANGED <<clock, conversations, order, current_chat_id, uploader_counter,
                   user_content, chunks, full_response, placeholder>>
    /\ UNCHANGED pvVars

\* variant: the delta is put in front of the buffer
ConsumeDelta_prepend(response, delta) ==
    IF Truthy(delta) THEN Value(delta) \o response ELSE response

\* variant: a delta that repeats the end of the buffer is dropped
ConsumeDelta_dedup(response, delta) ==
    IF Truthy(delta) /\ ~(Len(response) >= Len(Value(delta)) /\
                          SubSeq(response, Len(response) - Len(Value(delta)) + 1,
                                 Len(response)) = Value(delta))
    THEN response \o Value(delta)
    ELSE response

\* lines 605-606: the body of the stream loop
ConsumeDelta(response, delta) ==
    IF Truthy(delta) THEN response \o Value(delta) ELSE response

\* lines 603-607: one iteration of the stream loop
NextChunk ==
    /\ pc = "streaming"
    /\ completion # <<>>
    /\ LET delta == Head(completion)
       IN  /\ completion' = Tail(completion)
           /\ chunks' = Append(chunks, delta)
           /\ full_response' = ConsumeDelta(full_response, delta)
           /\ placeholder' = IF Truthy(delta)
                             THEN [kind |-> "markdown", text |-> full_response' \o Cursor]
                             ELSE placeholder
    /\ UNCHANGED <<clock, conversations, order, current_chat_id, uploader_counter,
                   pc, user_content>>
    /\ UNCHANGED pvVars

\* variant: at the end of the stream the remote call is issued again
StreamEnd_reopens ==
    /\ pc = "streaming"
    /\ completion = <<>>
    /\ placeholder' = [kind |-> "markdown", text |-> full_response]
    /\ pc' = "submitted"
    /\ UNCHANGED <<clock, conversations, order, current_chat_id, uploader_counter,
                   user_content, completion, chunks, full_response>>
    /\ UNCHANGED pvVars

\* line 609: the stream is exhausted
StreamEnd ==
    /\ pc = "streaming"
    /\ completion = <<>>
    /\ placeholder' = [kind |-> "markdown", text |-> full_response]
    /\ pc' = "committed"
    /\ UNCHANGED <<clock, conversations, order, current_chat_id, uploader_counter,
                   user_content, completion, chunks, full_response>>
    /\ UNCHANGED pvVars

\* variant: the except block leaves the partial response in full_response
Except_keeps_partial(e) ==
    /\ pc = "streaming"
    /\ placeholder' = [kind |-> "error", text |-> ErrorPrefix \o e]
    /\ completion' = <<>>
    /\ chunks' = <<>>
    /\ pc' = "errored"
    /\ UNCHANGED <<clock, conversations, order, current_chat_id, uploader_counter,
                   user_content, full_response>>
    /\ UNCHANGED pvVars

\* lines 611-613: the create call or the stream iterator raises, at any point
\* of the stream, which is then abandoned
Except(e) ==
    /\ pc = "streaming"
    /\ placeholder' = [kind |-> "error", text |-> ErrorPrefix \o e]
    /\ full_response' = SorryPrefix \o e
    /\ completion' = <<>>
    /\ chunks' = <<>>
    /\ pc' = "errored"
    /\ UNCHANGED <<clock, conversations, order, current_chat_id, uploader_counter,
                   user_content>>
    /\ UNCHANGED pvVars

\* lines 615-617: the assistant message is recorded and the script reruns
Finish ==
    /\ pc \in {"committed", "errored"}
    /\ conversations' =
           AppendMessage(conversations, current_chat_id,
                         Message("assistant", <<TextPart(full_response)>>))
    /\ uploader_counter' = uploader_counter + 1
    /\ placeholder' = EmptyPlaceholder
    /\ user_content' = <<>>
    /\ completion' = <<>>
    /\ chunks' = <<>>
    /\ full_response' = <<>>
    /\ pc' = "idle"
    /\ UNCHANGED <<clock, order, current_chat_id>>
    /\ UNCHANGED pvVars

RunStep ==
    \/ \E stream \in Streams : CreateCompletion(stream)
    \/ NextChunk
    \/ StreamEnd
    \/ \E e \in Errors : Except(e)
    \/ Finish

Next ==
    \/ \E now \in 0..MaxTime : new_chat(now)
    \/ \E chat_id \in DOMAIN conversations : select_chat(chat_id)
    \/ \E user_prompt \in Prompts, uploaded_image \in Uploads :
           Submit(user_prompt, uploaded_image)
    \/ RunStep

Spec == Init /\ [][Next]_vars

\* the script run always proceeds: each step of the send logic is taken in turn
FairSpec == Spec /\ WF_vars(RunStep)

----------------------------------------------------------------------------
(* get_preview applied to arbitrary short texts and bounds *)

Alphabet == {"a", "b", " "}

RECURSIVE TextsUpTo(_)
TextsUpTo(n) ==
    IF n = 0 THEN {<<>>}
    ELSE LET shorter == TextsUpTo(n - 1)
         IN  shorter \cup {Append(t, c) : t \in {u \in shorter : Len(u) = n - 1}, c \in Alphabet}

PreviewInit ==
    /\ InitApp
    /\ pv_pc = "ready"
    /\ \E t \in TextsUpTo(MaxTextLen) : pv_messages = <<Message("user", <<TextPart(t)>>)>>
    /\ pv_max_len \in 1..MaxPreviewLen
    /\ pv_result = <<>>

CallPreview ==
    /\ pv_pc = "ready"
    /\ pv_result' = get_preview(pv_messages, pv_max_len)
    /\ pv_pc' = "done"
    /\ UNCHANGED <<pv_messages, pv_max_len>>
    /\ UNCHANGED appVars

PreviewNext == CallPreview

PreviewSpec == PreviewInit /\ [][PreviewNext]_vars

----------------------------------------------------------------------------
(* Properties *)

\* line 528: messages = conversations[current_chat_id]
messages == conversations[current_chat_id]

IsPrefix(s, t) == Len(s) <= Len(t) /\ SubSeq(t, 1, Len(s)) = s

\* the fragments of a stream joined in arrival order, an absent delta adding nothing
RECURSIVE JoinFragments(_)
JoinFragments(fs) ==
    IF fs = <<>> THEN <<>>
    ELSE (IF Head(fs) = {} THEN <<>> ELSE Value(Head(fs))) \o JoinFragments(Tail(fs))

AllMessages ==
    UNION { {conversations[id][i] : i \in 1..Len(conversations[id])} :
            id \in DOMAIN conversations }

ErrorReplies == { Message("assistant", <<TextPart(SorryPrefix \o e)>>) : e \in Errors }

\* the user message of the running turn is recorded once, and nothing else is
\* recorded until the turn ends
TurnRecordsUserMessage ==
    /\ (pc = "idle" /\ pc' = "submitted") =>
           /\ conversations' =
                  AppendMessage(conversations, current_chat_id, Message("user", user_content'))
           /\ current_chat_id' = current_chat_id
    /\ (pc # "idle" /\ pc' # "idle") =>
           /\ conversations' = conversations
           /\ current_chat_id' = current_chat_id
           /\ user_content' = user_content

\* C1 as stated: a turn whose remote call raised ends with the user message as
\* the last message of the current conversation, no assistant message having
\* been appended.
C1_NoAssistantAfterError ==
    [][(pc = "errored" /\ pc' = "idle") =>
           /\ conversations' = conversations
           /\ messages'[Len(messages')] = Message("user", user_content)]_vars

\* C1 amended: a turn whose remote call raised ends with the current
\* conversation two messages longer than before the submission: the user
\* message, then an assistant message whose single Text part is "Sorry, I
\* encountered an error: " followed by the error text; while the turn is in the
\* errored position the placeholder displays the inline error.
C1_ErrorTurnAppendsApology ==
    /\ [](pc = "errored" =>
            /\ placeholder.kind = "error"
            /\ \E e \in Errors : placeholder.text = ErrorPrefix \o e
            /\ messages # <<>>
            /\ messages[Len(messages)] = Message("user", user_content))
    /\ [][/\ TurnRecordsUserMessage
          /\ (pc = "errored" /\ pc' = "idle") =>
                 \E reply \in ErrorReplies :
                     conversations' = AppendMessage(conversations, current_chat_id, reply)]_vars

C1_Witness ==
    /\ pc = "idle"
    /\ Len(messages) >= 2
    /\ messages[Len(messages)] \in ErrorReplies
    /\ messages[Len(messages) - 1].role = "user"

\* C2: in every reachable state current_chat_id is a key of the conversations
\* map, and the sidebar marks exactly one conversation as active.
C2_OneCurrentConversation ==
    /\ current_chat_id \in DOMAIN conversations
    /\ Cardinality({i \in DOMAIN sidebar : sidebar[i].is_active}) = 1

C2_Witness ==
    /\ Cardinality(DOMAIN conversations) >= 2
    /\ current_chat_id # order[Len(order)]
    /\ uploader_counter >= 2

\* C3: every new_chat call yields an identifier that no stored conversation
\* has, so the store grows by one conversation, and the new conversation is
\* empty and current.
C3_NewChatIdIsFresh ==
    [][(\E now \in 0..MaxTime : new_chat(now)) =>
           /\ current_chat_id' \notin DOMAIN conversations
           /\ Cardinality(DOMAIN conversations') = Cardinality(DOMAIN conversations) + 1
           /\ conversations'[current_chat_id'] = <<>>]_vars

\* C4: at every step, every conversation is still stored and its message
\* sequence before the step is a prefix of its message sequence after it.
C4_AppendOnly ==
    [][\A id \in DOMAIN conversations :
           /\ id \in DOMAIN conversations'
           /\ IsPrefix(conversations[id], conversations'[id])]_vars

\* C5: a turn whose stream ran to exhaustion adds exactly two messages to the
\* current conversation: the user message, then an assistant message with a
\* single Text part holding the fragments joined in arrival order.
C5_SuccessfulTurn ==
    /\ [](pc = "committed" =>
            /\ messages # <<>>
            /\ messages[Len(messages)] = Message("user", user_content))
    /\ [][/\ TurnRecordsUserMessage
          /\ (pc = "committed" /\ pc' = "idle") =>
                 conversations' =
                     AppendMessage(conversations, current_chat_id,
                         Message("assistant", <<TextPart(JoinFragments(chunks))>>))]_vars

HelloText == <<"H", "e", "l", "l", "o", ",", " ", "w", "o", "r", "l", "d">>

C5_Witness ==
    /\ pc = "idle"
    /\ Len(messages) = 2
    /\ messages[1].role = "user"
    /\ messages[2] = Message("assistant", <<TextPart(HelloText)>>)

\* whitespace normalisation, character by character: leading and trailing
\* whitespace removed, every inner run of whitespace replaced by one space
RECURSIVE CollapseFrom(_)
CollapseFrom(t) ==
    IF t = <<>> THEN <<>>
    ELSE IF Head(t) \in Whitespace THEN <<" ">> \o CollapseFrom(LStrip(t))
    ELSE <<Head(t)>> \o CollapseFrom(Tail(t))

Collapse(s) == CollapseFrom(Strip(s))

\* the first n characters followed by the ellipsis when longer than n
Truncated(t, n) ==
    IF Len(t) > n THEN [i \in 1..(n + 3) |-> IF i <= n THEN t[i] ELSE "."] ELSE t

pv_text == pv_messages[1].content[1].text

\* C6 as stated: the preview of a user text longer than max_len is its first
\* max_len characters followed by the ellipsis, and the preview of a user text
\* of at most max_len characters is the text itself.
C6_PreviewOfRawText ==
    pv_pc = "done" => pv_result = Truncated(pv_text, pv_max_len)

\* C6 amended: for every non-empty user text, the preview is computed from the
\* whitespace-normalised text (leading and trailing whitespace removed, every
\* run of whitespace replaced by one space): when that is longer than max_len
\* the preview is its first max_len characters followed by the ellipsis,
\* otherwise it is the normalised text itself.
C6_PreviewOfNormalisedText ==
    (pv_pc = "done" /\ pv_text # <<>>) =>
        pv_result = Truncated(Collapse(pv_text), pv_max_len)

C6_Witness ==
    /\ pv_pc = "done"
    /\ pv_text = <<"a", " ", " ", "b">>
    /\ pv_max_len = 2
    /\ pv_result = <<"a", " ", ".", ".", ".">>

UserMessages(msgs) == SelectSeq(msgs, LAMBDA m : m.role = "user")

\* the preview a conversation is listed with: from its most recent user message
ListedPreview(msgs) ==
    LET users == UserMessages(msgs)
    IN  IF users = <<>> THEN NewConversationLabel
        ELSE Truncated(Collapse(users[Len(users)].content[1].text), DefaultMaxLen)

SidebarPreview(sb, id) ==
    LET i == CHOOSE j \in DOMAIN sb : sb[j].chat_id = id IN sb[i].preview

\* C7: between script runs the sidebar lists every conversation once, with the
\* preview of its most recent user message, or "New conversation" when it has
\* none; a step that appends a message to the current conversation leaves the
\* messages of every other conversation unchanged, and with them the previews
\* they are listed with.
C7_PreviewFollowsLastUserMessage ==
    /\ [](pc = "idle" =>
            /\ Len(sidebar) = Cardinality(DOMAIN conversations)
            /\ {sidebar[i].chat_id : i \in DOMAIN sidebar} = DOMAIN conversations
            /\ \A i \in DOMAIN sidebar :
                   sidebar[i].preview = ListedPreview(conversations[sidebar[i].chat_id]))
    /\ [][(messages' # messages /\ current_chat_id' = current_chat_id /\ messages' # <<>>) =>
              \A id \in DOMAIN conversations \ {current_chat_id} :
                  /\ id \in DOMAIN conversations'
                  /\ conversations'[id] = conversations[id]]_vars

C7_Witness ==
    /\ pc = "idle"
    /\ Cardinality(DOMAIN conversations) = 2
    /\ \A id \in DOMAIN conversations : Len(conversations[id]) = 2
    /\ \E id \in DOMAIN conversations :
           /\ id # current_chat_id
           /\ SidebarPreview(sidebar, id) = <<"a", " ", "b">>
    /\ SidebarPreview(sidebar, current_chat_id) = Replicate("a", 34) \o <<" ">> \o Ellipsis

CycleEdges ==
    { <<"idle", "submitted">>, <<"submitted", "streaming">>,
      <<"streaming", "committed">>, <<"streaming", "errored">>,
      <<"committed", "idle">>, <<"errored", "idle">> }

\* C8: the position of a request cycle moves only along idle -> submitted ->
\* streaming -> (committed | errored) -> idle; a submission is accepted only in
\* idle; the fragments received belong to the one call in flight, growing by
\* one at the end while it streams and discarded when the call ends; and
\* every submitted turn reaches committed or errored and then idle.
C8_RequestCycle ==
    /\ [][pc' # pc => <<pc, pc'>> \in CycleEdges]_vars
    /\ [][user_content' # user_content => (pc = "idle" \/ pc' = "idle")]_vars
    /\ [][chunks' # chunks =>
              \/ (pc = "streaming" /\ pc' = "streaming" /\
                  Len(chunks') = Len(chunks) + 1 /\ IsPrefix(chunks, chunks'))
              \/ (pc' \in {"idle", "errored"} /\ chunks' = <<>>)]_vars
    /\ [](pc \notin {"streaming", "committed"} => (chunks = <<>> /\ completion = <<>>))
    /\ (pc = "submitted") ~> (pc \in {"committed", "errored"})
    /\ (pc \in {"committed", "errored"}) ~> (pc = "idle")

C8_Witness ==
    /\ pc = "committed"
    /\ Len(chunks) >= 2
    /\ Len(messages) >= 3

\* C9: every stored user message has a Text part first and after it at most
\* one Image part and nothing else; every stored assistant message has only
\* Text parts.
C9_MessageShape ==
    \A m \in AllMessages :
        /\ m.role \in {"user", "assistant"}
        /\ m.role = "user" =>
               /\ Len(m.content) \in {1, 2}
               /\ m.content[1].type = "text"
               /\ Len(m.content) = 2 => m.content[2].type = "image_url"
        /\ m.role = "assistant" =>
               /\ m.content # <<>>
               /\ \A i \in DOMAIN m.content : m.content[i].type = "text"

C9_Witness ==
    /\ \E m \in AllMessages : m.role = "user" /\ Len(m.content) = 2
    /\ \E m \in AllMessages : m.role = "user" /\ Len(m.content) = 1
    /\ \E m \in AllMessages : m.role = "assistant"

HelloStream ==
    << {<<"H", "e", "l">>}, {<<"l", "o", ",", " ">>}, {<<"w", "o", "r", "l", "d">>} >>

HelloBuffers ==
    << <<"H", "e", "l">>,
       <<"H", "e", "l", "l", "o", ",", " ">>,
       <<"H", "e", "l", "l", "o", ",", " ", "w", "o", "r", "l", "d">> >>

\* C10: while a stream is consumed, after the k-th fragment full_response is
\* the first k fragments joined in arrival order; a fragment that is empty or
\* absent leaves it unchanged; and the fragments "Hel", "lo, ", "world" give
\* the buffers "Hel", "Hello, ", "Hello, world".
C10_BufferIsJoinOfFragments ==
    /\ [](pc \in {"streaming", "committed"} =>
            /\ full_response = JoinFragments(chunks)
            /\ \A k \in 1..3 :
                   chunks = SubSeq(HelloStream, 1, k) => full_response = HelloBuffers[k])
    /\ [][(pc = "streaming" /\ chunks' # chunks /\ chunks' # <<>> /\
           chunks'[Len(chunks')] \in {{}, {<<>>}}) =>
              (full_response' = full_response /\ placeholder' = placeholder)]_vars

C10_Witness ==
    /\ pc = "streaming"
    /\ chunks = << {<<"a">>}, {}, {<<"a">>}, {<<>>} >>
    /\ full_response = <<"a", "a">>

\* user, assistant, user, assistant, ... from a user message on, of even length
Alternates(msgs) ==
    /\ Len(msgs) % 2 = 0
    /\ \A i \in DOMAIN msgs :
           msgs[i].role = (IF i % 2 = 1 THEN "user" ELSE "assistant")

IsBlank(text) == \A i \in DOMAIN text : text[i] \in Whitespace

\* C11: between request cycles every conversation alternates user, assistant,
\* ... from a user message on and has even length, whether the remote calls
\* succeeded or failed; a prompt that is empty or only whitespace records
\* nothing and starts no remote call: every recorded user text is the stripped
\* form of a prompt that is not blank, and a remote call is in flight only
\* behind such a user message.
C11_IdleAlternation ==
    /\ [](pc = "idle" => \A id \in DOMAIN conversations : Alternates(conversations[id]))
    /\ [](\A m \in AllMessages :
              m.role = "user" =>
                  /\ ~IsBlank(m.content[1].text)
                  /\ \E p \in Prompts : ~IsBlank(p) /\ m.content[1].text = Strip(p))
    /\ [](pc \in {"submitted", "streaming"} =>
              /\ messages # <<>>
              /\ messages[Len(messages)].role = "user"
              /\ ~IsBlank(messages[Len(messages)].content[1].text))
    /\ [][(pc = "idle" /\ pc' # "idle") =>
              (pc' = "submitted" /\ ~IsBlank(user_content'[1].text))]_vars

C11_Witness ==
    /\ pc = "idle"
    /\ Len(messages) = 4
    /\ Alternates(messages)
    /\ messages[2] \in ErrorReplies
    /\ messages[4] = Message("assistant", <<TextPart(HelloText)>>)

=============================================================================
